---- MODULE Spec2Model ----
(***************************************************************************)
(* Waypoint list management of src/libs/actions/Transaction.ts.            *)
(*                                                                         *)
(* The module keeps two in-memory mirrors (recentWaypoints,                *)
(* allTransactions) fed by store notifications, and exposes operations     *)
(* that write transaction records to a reactive key-value store (Onyx).    *)
(* A transaction has a committed copy (collection "transactions_") and a   *)
(* draft copy (collection "transactionsDraft_").                           *)
(*                                                                         *)
(* A transaction record is flattened to the paths the module touches:      *)
(*   transactionID                   transaction.transactionID             *)
(*   amount                          transaction.amount (<<>> when absent) *)
(*   waypoints                       transaction.comment.waypoints         *)
(*   isLoading                       transaction.comment.isLoading         *)
(*   errorRoute                      transaction.errorFields.route         *)
(*   distance                        transaction.routes.route0.distance    *)
(*   coordinates       transaction.routes.route0.geometry.coordinates      *)
(* A waypoint collection is the sequence of its [key, value] entries in    *)
(* the object's enumeration (insertion) order: Object.keys/Object.values   *)
(* enumerate in that order.  key k stands for the property `waypoint${k}`. *)
(*                                                                         *)
(* Spec   is the module from its load on: at most MaxOps calls of its      *)
(*        operations, interleaved with store notifications, responses of   *)
(*        route requests and pushes of the backend.                        *)
(* SpecOp is one call of an operation on any stored transaction of at most *)
(*        MaxLen waypoints, followed by the notifications and responses it *)
(*        causes.                                                          *)
(* SpecRecent, SpecRoute, SpecSnapshot and SpecMirror are the module's     *)
(*        recent waypoints, route requests, removeWaypoint on a lagging    *)
(*        snapshot and transaction mirror, each with the operations and    *)
(*        notifications that concern it.                                   *)
(* SpecSidebar is the memo of src/pages/home/sidebar/SidebarLinksData.tsx  *)
(*        that caches the ordered report ids.                              *)
(***************************************************************************)
EXTENDS Integers, Sequences, FiniteSets, TLC

VARIABLES
    store,            \* Onyx: key -> transaction record (committed and draft copies)
    recentStore,      \* Onyx: value stored under NVP_RECENT_WAYPOINTS
    allTransactions,  \* mirror: transactionID -> last notified committed record
    recentWaypoints,  \* mirror of NVP_RECENT_WAYPOINTS
    txQueue,          \* notifications of the transaction collection not yet delivered
    recentQueue,      \* notifications of NVP_RECENT_WAYPOINTS not yet delivered
    inFlight,         \* key -> number of route requests issued and not yet resolved
    resolved,         \* keys for which at least one route request has resolved
    contract,         \* "new", then "kept" from createInitialWaypoints on while every
                      \* call is one the callers' contract allows, else "broken"
    budget,           \* operations that may still be called
    last,             \* the last operation called, with its arguments
    saveCalls,        \* the waypoints passed to saveWaypoint so far, oldest first
    reportIDsRef,     \* SidebarLinksData: reportIDsRef.current
    optionListItems,  \* SidebarLinksData: the list its memo returned last
    priorityMode,     \* SidebarLinksData: the priorityMode of its last render
    renders           \* SidebarLinksData: the renders so far

\* the state of SidebarLinksData
sidebarVars == <<reportIDsRef, optionListItems, priorityMode, renders>>

\* the state of the waypoint actions and of the store
transactionVars == <<store, recentStore, allTransactions, recentWaypoints, txQueue,
                     recentQueue, inFlight, resolved, contract, budget, saveCalls>>

vars == <<store, recentStore, allTransactions, recentWaypoints, txQueue, recentQueue,
          inFlight, resolved, contract, budget, last, saveCalls,
          reportIDsRef, optionListItems, priorityMode, renders>>

----------------------------------------------------------------------------
(* Bounds of the model *)

\* operations called in one behaviour of Spec
MaxOps == 4
\* waypoint indices passed by callers are 0..MaxIndex
MaxIndex == 2
\* notifications of one subscription in flight at a time
MaxPending == 2
\* overlapping route requests per transaction copy
MaxRequests == 2
\* longest waypoint list of a pre-state of SpecOp
MaxLen == 3

----------------------------------------------------------------------------
(* Values *)

Absent == "absent"
NullValue == "null"
YOUR_LOCATION_TEXT == "Your Location"
TRANSACTION == "transactions_"
TRANSACTION_DRAFT == "transactionsDraft_"

TxIDs == {"t1"}
Collections == {TRANSACTION, TRANSACTION_DRAFT}
Keys == Collections \X TxIDs

\* `${collection}${transactionID}`
KeyOf(collection, transactionID) == <<collection, transactionID>>

\* a waypoint object; geo stands for the pair of properties lat and lng
Waypoint(address, geo) == [isNull |-> FALSE, address |-> address, geo |-> geo]
\* {}
EmptyWaypoint == Waypoint(Absent, FALSE)
\* null
NullWaypoint == [isNull |-> TRUE, address |-> Absent, geo |-> FALSE]

Entry(k, w) == [key |-> k, value |-> w]
EmptyCollection == <<>>

\* Object.keys(waypoints)
WaypointKeys(waypoints) == {waypoints[i].key : i \in 1..Len(waypoints)}
\* Object.values(waypoints)
WaypointValues(waypoints) == [i \in 1..Len(waypoints) |-> waypoints[i].value]
\* waypoints[`waypoint${k}`], for a key the collection has
WaypointAt(waypoints, k) ==
    LET i == CHOOSE j \in 1..Len(waypoints) : waypoints[j].key = k
    IN  waypoints[i].value

\* {} (also what the code substitutes for a null or missing transaction)
EmptyTransaction ==
    [transactionID |-> Absent, amount |-> <<>>, waypoints |-> EmptyCollection,
     isLoading |-> Absent, errorRoute |-> Absent, distance |-> Absent,
     coordinates |-> Absent]

\* a patch that mentions no path
NoPatch == EmptyTransaction

\* null or undefined in the place of a transaction
NullTransaction == [EmptyTransaction EXCEPT !.transactionID = NullValue]

\* undefined in the place of a key
NoKey == <<>>

----------------------------------------------------------------------------
(* Onyx: merge is a deep structural merge that keeps nested null values,     *)
(* set replaces the whole value.                                             *)

\* a nested property: the patch's value when the patch mentions it
MergeLeaf(old, new) == IF new = Absent THEN old ELSE new

\* a waypoint object merged into the stored one, property by property
MergeWaypoint(old, new) ==
    IF new.isNull THEN NullWaypoint
    ELSE IF old.isNull THEN new
    ELSE Waypoint(MergeLeaf(old.address, new.address), old.geo \/ new.geo)

\* the positions of a sequence whose entries satisfy Keep, in order
RECURSIVE SelectEntries(_, _)
SelectEntries(entries, keep) ==
    IF entries = <<>> THEN <<>>
    ELSE IF Head(entries).key \in keep
         THEN <<Head(entries)>> \o SelectEntries(Tail(entries), keep)
         ELSE SelectEntries(Tail(entries), keep)

\* existing keys keep their place and merge, new keys are appended in the
\* patch's order
MergeWaypoints(old, new) ==
    LET merged == [i \in 1..Len(old) |->
                     IF old[i].key \in WaypointKeys(new)
                     THEN Entry(old[i].key, MergeWaypoint(old[i].value, WaypointAt(new, old[i].key)))
                     ELSE old[i]]
    IN  merged \o SelectEntries(new, WaypointKeys(new) \ WaypointKeys(old))

\* Onyx.merge(key, patch) applied to the stored record
MergeTransaction(old, patch) ==
    [transactionID |-> MergeLeaf(old.transactionID, patch.transactionID),
     amount        |-> IF patch.amount = <<>> THEN old.amount ELSE patch.amount,
     waypoints     |-> MergeWaypoints(old.waypoints, patch.waypoints),
     isLoading     |-> MergeLeaf(old.isLoading, patch.isLoading),
     errorRoute    |-> MergeLeaf(old.errorRoute, patch.errorRoute),
     distance      |-> MergeLeaf(old.distance, patch.distance),
     coordinates   |-> MergeLeaf(old.coordinates, patch.coordinates)]

----------------------------------------------------------------------------
(* The patches and records the operations build *)

\* lodashHas(waypoint, 'lat') && lodashHas(waypoint, 'lng')
HasLatLng(waypoint) == ~waypoint.isNull /\ waypoint.geo

\* TransactionUtils.waypointHasValidAddress(waypoint): a non-empty address
waypointHasValidAddress(waypoint) == ~waypoint.isNull /\ waypoint.address # Absent

\* sequence.slice(0, n)
Slice(sequence, n) == SubSeq(sequence, 1, IF Len(sequence) < n THEN Len(sequence) ELSE n)

\* the most recent waypoints kept
MaxRecentWaypoints == 5

\* array.splice(index, 1) leaves the array without the element at index
SpliceOut(values, index) ==
    IF index < Len(values)
    THEN SubSeq(values, 1, index) \o SubSeq(values, index + 2, Len(values))
    ELSE values

\* array.splice(index, 0, item) inserts item at index (at the end when index
\* is past it)
SpliceIn(values, index, item) ==
    IF index < Len(values)
    THEN SubSeq(values, 1, index) \o <<item>> \o SubSeq(values, index + 1, Len(values))
    ELSE Append(values, item)

\* a slip: only waypoint0 is created
InitialWaypointsPatchFirstOnly ==
    [NoPatch EXCEPT !.waypoints = <<Entry(0, EmptyWaypoint)>>]

\* the object createInitialWaypoints merges
InitialWaypointsPatch ==
    [NoPatch EXCEPT !.waypoints = <<Entry(0, EmptyWaypoint), Entry(1, EmptyWaypoint)>>]

\* addStop: the transaction read from the mirror
MirroredTransaction(transactionID) ==
    IF transactionID \in DOMAIN allTransactions
    THEN allTransactions[transactionID]
    ELSE EmptyTransaction

\* addStop: Object.keys(existingWaypoints).length
NewLastIndex(transaction) == Len(transaction.waypoints)

\* the object addStop merges
AddStopPatch(newLastIndex) ==
    [NoPatch EXCEPT !.waypoints = <<Entry(newLastIndex, EmptyWaypoint)>>]

\* the selection the flag's name suggests
SaveWaypointCollectionByFlag(isDraft) == IF isDraft THEN TRANSACTION_DRAFT ELSE TRANSACTION

\* the collection saveWaypoint writes to
SaveWaypointCollection(isDraft) == IF isDraft THEN TRANSACTION ELSE TRANSACTION_DRAFT

\* the object saveWaypoint merges
SaveWaypointPatch(index, waypoint) ==
    [NoPatch EXCEPT !.waypoints = <<Entry(index, waypoint)>>,
                    !.errorRoute = NullValue,
                    !.coordinates = NullValue]

\* the addresses of a recent waypoints list
Addresses(recent) == {recent[i].address : i \in 1..Len(recent)}

\* recentWaypoints.find(...) finds an entry with the waypoint's address
RecentWaypointAlreadyExists(recent, waypoint) ==
    \E i \in 1..Len(recent) : recent[i].address = waypoint.address

\* a slip: the current location is not told from an address
SavesRecentWaypointOfAnyAddress(recent, waypoint) ==
    /\ HasLatLng(waypoint)
    /\ ~RecentWaypointAlreadyExists(recent, waypoint)
    /\ ~waypoint.isNull

\* saveWaypoint: whether the recent waypoints are written
SavesRecentWaypoint(recent, waypoint) ==
    /\ HasLatLng(waypoint)
    /\ waypoint.address # YOUR_LOCATION_TEXT
    /\ ~RecentWaypointAlreadyExists(recent, waypoint)
    /\ ~waypoint.isNull

\* a slip: the list is not cut
NewRecentWaypointsUncut(recent, waypoint) == <<waypoint>> \o recent

\* saveWaypoint: the list merged into NVP_RECENT_WAYPOINTS
NewRecentWaypoints(recent, waypoint) == Slice(<<waypoint>> \o recent, MaxRecentWaypoints)

\* removeWaypoint: the values left after the splice at index
RemainingWaypointValues(transaction, index) ==
    SpliceOut(WaypointValues(transaction.waypoints), index)

\* a slip: the index just past the last waypoint counts as a removal
NothingRemovedPastEnd(transaction, index) == index > Len(transaction.waypoints)

\* removeWaypoint: removed.length === 0.  index is Number(currentIndex) of a
\* route parameter written in decimal digits.
NothingRemoved(transaction, index) == index >= Len(transaction.waypoints)

\* a slip: the route is cleared whatever was removed
IsRemovedWaypointEmptyNever(transaction, index) == FALSE

\* removeWaypoint: isRemovedWaypointEmpty, of removed = splice(index, 1)
IsRemovedWaypointEmpty(transaction, index) ==
    LET values == WaypointValues(transaction.waypoints)
        removed == IF index < Len(values) THEN <<values[index + 1]>> ELSE <<>>
    IN  Len(removed) > 0 /\ ~waypointHasValidAddress(removed[1])

\* a slip: the count of waypoints is not looked at
AddsEmptyWaypointBackAtAnyCount(totalWaypoints, index) ==
    index = 0 \/ index = totalWaypoints - 1

\* a slip: only the first of two waypoints is replaced
AddsEmptyWaypointBackAtFirstOnly(totalWaypoints, index) ==
    totalWaypoints = 2 /\ index = 0

\* removeWaypoint: with only two waypoints an empty one is added back
AddsEmptyWaypointBack(totalWaypoints, index) ==
    totalWaypoints = 2 /\ (index = 0 \/ index = totalWaypoints - 1)

\* removeWaypoint: reIndexedWaypoints
ReIndexedWaypoints(transaction, index) ==
    LET totalWaypoints == Len(transaction.waypoints)
        spliced == RemainingWaypointValues(transaction, index)
        waypointValues == IF AddsEmptyWaypointBack(totalWaypoints, index)
                          THEN SpliceIn(spliced, index, EmptyWaypoint)
                          ELSE spliced
    IN  [idx \in 1..Len(waypointValues) |-> Entry(idx - 1, waypointValues[idx])]

\* removeWaypoint: newTransaction, the record handed to Onyx.set.  amount
\* stands for the scalar fields the code defaults when absent (amount,
\* billable, category, ...); transactionID is defaulted to ''.
NewTransaction(transaction, index) ==
    LET rebuilt == [transaction EXCEPT
                      !.amount = IF transaction.amount = <<>> THEN <<0>> ELSE transaction.amount,
                      !.transactionID = IF transaction.transactionID = Absent
                                        THEN "" ELSE transaction.transactionID,
                      !.waypoints = ReIndexedWaypoints(transaction, index)]
    IN  IF ~IsRemovedWaypointEmpty(transaction, index)
        THEN [rebuilt EXCEPT !.errorRoute = NullValue,
                             !.distance = NullValue,
                             !.coordinates = NullValue]
        ELSE rebuilt

\* the collection removeWaypoint writes to
RemoveWaypointCollection(isDraft) == IF isDraft THEN TRANSACTION_DRAFT ELSE TRANSACTION

\* the collection of getOnyxDataForRouteRequest's three patches
RouteRequestCollection(isDraft) == IF isDraft THEN TRANSACTION_DRAFT ELSE TRANSACTION

\* getOnyxDataForRouteRequest: optimisticData
OptimisticData == [NoPatch EXCEPT !.isLoading = "true", !.errorRoute = NullValue]
\* a slip: a successful response leaves the loading state
SuccessDataLeavesLoading == NoPatch
\* a slip: a failed response sets the route error
FailureDataSetsError == [NoPatch EXCEPT !.isLoading = "false", !.errorRoute = "error"]

\* getOnyxDataForRouteRequest: successData
SuccessData == [NoPatch EXCEPT !.isLoading = "false"]
\* getOnyxDataForRouteRequest: failureData
FailureData == [NoPatch EXCEPT !.isLoading = "false"]

\* the collection updateWaypoints writes to
UpdateWaypointsCollection(isDraft) == IF isDraft THEN TRANSACTION_DRAFT ELSE TRANSACTION

\* a slip: the route error is left
UpdateWaypointsPatchKeepsError(waypoints) ==
    [NoPatch EXCEPT !.waypoints = waypoints,
                    !.distance = NullValue,
                    !.coordinates = NullValue]

\* the object updateWaypoints merges
UpdateWaypointsPatch(waypoints) ==
    [NoPatch EXCEPT !.waypoints = waypoints,
                    !.errorRoute = NullValue,
                    !.distance = NullValue,
                    !.coordinates = NullValue]

----------------------------------------------------------------------------
(* Inputs *)

GeocodedA == Waypoint("A", TRUE)
GeocodedC == Waypoint("C", TRUE)
UngeocodedB == Waypoint("B", FALSE)
CurrentLocation == Waypoint(YOUR_LOCATION_TEXT, TRUE)

\* the waypoints callers pass to saveWaypoint
SavedWaypoints == {NullWaypoint, EmptyWaypoint, GeocodedA, UngeocodedB, CurrentLocation}

\* a collection holding the values in key order waypoint0, waypoint1, ...
CollectionOf(values) == [i \in 1..Len(values) |-> Entry(i - 1, values[i])]

\* the collections callers pass to updateWaypoints: reordered or shortened
\* lists, and one that skips a key
UpdatedCollections ==
    {CollectionOf(<<GeocodedA, UngeocodedB>>),
     CollectionOf(<<UngeocodedB, GeocodedA, EmptyWaypoint>>),
     <<Entry(0, GeocodedA), Entry(2, UngeocodedB)>>}

\* the transaction values a caller of removeWaypoint can hold for the copy it
\* names with isDraft: the stored copy, for the committed copy also the value
\* of an earlier notification, or none
Snapshots(isDraft) ==
    IF isDraft
    THEN {store[KeyOf(TRANSACTION_DRAFT, id)] : id \in TxIDs} \cup {EmptyTransaction}
    ELSE {store[KeyOf(TRANSACTION, id)] : id \in TxIDs}
            \cup {MirroredTransaction(id) : id \in TxIDs} \cup {EmptyTransaction}

----------------------------------------------------------------------------
(* Store writes and their notifications *)

\* a notification of the transaction collection: callback(transaction, key)
Notification(key, value) == [key |-> key, value |-> value]

\* the notifications a write to key adds: the module subscribes to the
\* committed collection only
Notified(key, value) ==
    IF key[1] = TRANSACTION THEN Append(txQueue, Notification(key, value)) ELSE txQueue

\* room for the notification of a write to key
CanNotify(key) == key[1] = TRANSACTION => Len(txQueue) < MaxPending

\* Onyx.merge(key, patch)
OnyxMerge(key, patch) ==
    LET value == MergeTransaction(store[key], patch)
    IN  /\ store' = [store EXCEPT ![key] = value]
        /\ txQueue' = Notified(key, value)

\* Onyx.set(key, value)
OnyxSet(key, value) ==
    /\ store' = [store EXCEPT ![key] = value]
    /\ txQueue' = Notified(key, value)

\* the record of a call: its arguments, and the stored values it found
Call(op) ==
    [op |-> op, key |-> <<>>, index |-> 0, waypoint |-> NullWaypoint, isDraft |-> FALSE,
     transaction |-> EmptyTransaction, waypoints |-> EmptyCollection, wrote |-> TRUE,
     before |-> store, recentBefore |-> recentStore, mirror |-> allTransactions]

\* another operation may be called
CanCall == budget > 0

\* the contract after createInitialWaypoints
Started == IF contract = "broken" THEN "broken" ELSE "kept"
\* the contract after a call on the waypoints that is allowed when allowed holds
Kept(allowed) == IF contract = "kept" /\ allowed THEN "kept" ELSE "broken"

\* an operation is called: one less may follow
Called(record, contractAfter) ==
    /\ budget' = budget - 1
    /\ last' = record
    /\ contract' = contractAfter

----------------------------------------------------------------------------
(* Operations *)

createInitialWaypoints(transactionID) ==
    LET key == KeyOf(TRANSACTION, transactionID)
    IN  /\ CanCall
        /\ CanNotify(key)
        /\ OnyxMerge(key, InitialWaypointsPatch)
        /\ Called([Call("createInitialWaypoints") EXCEPT !.key = key], Started)
        /\ UNCHANGED <<recentStore, allTransactions, recentWaypoints, recentQueue,
                       inFlight, resolved>>
        /\ UNCHANGED <<saveCalls, sidebarVars>>

addStop(transactionID) ==
    LET key == KeyOf(TRANSACTION, transactionID)
        transaction == MirroredTransaction(transactionID)
        newLastIndex == NewLastIndex(transaction)
    IN  /\ CanCall
        /\ CanNotify(key)
        /\ OnyxMerge(key, AddStopPatch(newLastIndex))
        /\ Called([Call("addStop") EXCEPT !.key = key, !.index = newLastIndex,
                                          !.transaction = transaction], Kept(TRUE))
        /\ UNCHANGED <<recentStore, allTransactions, recentWaypoints, recentQueue,
                       inFlight, resolved>>
        /\ UNCHANGED <<saveCalls, sidebarVars>>

saveWaypoint(transactionID, index, waypoint, isDraft) ==
    LET key == KeyOf(SaveWaypointCollection(isDraft), transactionID)
        saves == SavesRecentWaypoint(recentWaypoints, waypoint)
        recent == NewRecentWaypoints(recentWaypoints, waypoint)
    IN  /\ CanCall
        /\ CanNotify(key)
        /\ saves => Len(recentQueue) < MaxPending
        /\ OnyxMerge(key, SaveWaypointPatch(index, waypoint))
        /\ recentStore' = IF saves THEN recent ELSE recentStore
        /\ recentQueue' = IF saves THEN Append(recentQueue, recent) ELSE recentQueue
        /\ Called([Call("saveWaypoint") EXCEPT !.key = key, !.index = index,
                                               !.waypoint = waypoint, !.isDraft = isDraft,
                                               !.wrote = saves],
                  Kept(index \in WaypointKeys(store[key].waypoints)))
        /\ saveCalls' = Append(saveCalls, waypoint)
        /\ UNCHANGED <<allTransactions, recentWaypoints, inFlight, resolved>>
        /\ UNCHANGED sidebarVars

\* a slip: the record is merged into the stored copy
RemoveWaypointMerges(key, newTransaction) == OnyxMerge(key, newTransaction)

\* removeWaypoint: the write of newTransaction
RemoveWaypointWrite(key, newTransaction) == OnyxSet(key, newTransaction)

removeWaypoint(transaction, index, isDraft) ==
    LET key == KeyOf(RemoveWaypointCollection(isDraft), transaction.transactionID)
        record == [Call("removeWaypoint") EXCEPT !.key = key, !.index = index,
                                                 !.transaction = transaction,
                                                 !.isDraft = isDraft]
    IN  /\ CanCall
        /\ IF NothingRemoved(transaction, index)
           THEN /\ UNCHANGED <<store, txQueue>>
                /\ Called([record EXCEPT !.wrote = FALSE], Kept(FALSE))
           ELSE /\ CanNotify(key)
                /\ RemoveWaypointWrite(key, NewTransaction(transaction, index))
                /\ Called(record, Kept(TRUE))
        /\ UNCHANGED <<recentStore, allTransactions, recentWaypoints, recentQueue,
                       inFlight, resolved>>
        /\ UNCHANGED <<saveCalls, sidebarVars>>

getOnyxDataForRouteRequest(transactionID, isDraft) ==
    [key |-> KeyOf(RouteRequestCollection(isDraft), transactionID),
     optimisticData |-> OptimisticData,
     successData |-> SuccessData,
     failureData |-> FailureData]

\* API.read(command, parameters, onyxData): the optimistic patch is applied
\* at once and the request is in flight
ApiRead(onyxData) ==
    /\ CanNotify(onyxData.key)
    /\ inFlight[onyxData.key] < MaxRequests
    /\ OnyxMerge(onyxData.key, onyxData.optimisticData)
    /\ inFlight' = [inFlight EXCEPT ![onyxData.key] = @ + 1]

getRoute(transactionID) ==
    /\ CanCall
    /\ ApiRead(getOnyxDataForRouteRequest(transactionID, FALSE))
    /\ Called([Call("getRoute") EXCEPT !.key = KeyOf(TRANSACTION, transactionID)], contract)
    /\ UNCHANGED <<recentStore, allTransactions, recentWaypoints, recentQueue, resolved>>
    /\ UNCHANGED <<saveCalls, sidebarVars>>

getRouteForDraft(transactionID) ==
    /\ CanCall
    /\ ApiRead(getOnyxDataForRouteRequest(transactionID, TRUE))
    /\ Called([Call("getRouteForDraft") EXCEPT !.key = KeyOf(TRANSACTION_DRAFT, transactionID),
                                               !.isDraft = TRUE], contract)
    /\ UNCHANGED <<recentStore, allTransactions, recentWaypoints, recentQueue, resolved>>
    /\ UNCHANGED <<saveCalls, sidebarVars>>

updateWaypoints(transactionID, waypoints, isDraft) ==
    LET key == KeyOf(UpdateWaypointsCollection(isDraft), transactionID)
    IN  /\ CanCall
        /\ CanNotify(key)
        /\ OnyxMerge(key, UpdateWaypointsPatch(waypoints))
        /\ Called([Call("updateWaypoints") EXCEPT !.key = key, !.waypoints = waypoints,
                                                  !.isDraft = isDraft],
                  Kept(WaypointKeys(waypoints) = 0..(Len(waypoints) - 1)))
        /\ UNCHANGED <<recentStore, allTransactions, recentWaypoints, recentQueue,
                       inFlight, resolved>>
        /\ UNCHANGED <<saveCalls, sidebarVars>>

----------------------------------------------------------------------------
(* The environment: responses, pushes and notifications *)

\* a route request of key resolves: API applies successData or failureData
requestResolves(key, succeeded) ==
    LET isDraft == key[1] = TRANSACTION_DRAFT
        onyxData == getOnyxDataForRouteRequest(key[2], isDraft)
    IN  /\ inFlight[key] > 0
        /\ CanNotify(onyxData.key)
        /\ OnyxMerge(onyxData.key,
                     IF succeeded THEN onyxData.successData ELSE onyxData.failureData)
        /\ inFlight' = [inFlight EXCEPT ![key] = @ - 1]
        /\ resolved' = resolved \cup {key}
        /\ last' = [Call(IF succeeded THEN "requestSucceeds" ELSE "requestFails")
                      EXCEPT !.key = key, !.isDraft = isDraft]
        /\ UNCHANGED <<recentStore, allTransactions, recentWaypoints, recentQueue,
                       contract, budget>>
        /\ UNCHANGED <<saveCalls, sidebarVars>>

\* the backend pushes a computed route
RoutePushed == [NoPatch EXCEPT !.distance = "distance", !.coordinates = "coordinates"]
\* the backend pushes a route error
ErrorPushed == [NoPatch EXCEPT !.errorRoute = "error"]

backendPushes(key, patch) ==
    /\ CanCall
    /\ CanNotify(key)
    /\ OnyxMerge(key, patch)
    /\ Called([Call("backendPushes") EXCEPT !.key = key], contract)
    /\ UNCHANGED <<recentStore, allTransactions, recentWaypoints, recentQueue,
                   inFlight, resolved>>
    /\ UNCHANGED <<saveCalls, sidebarVars>>

\* Onyx.connect({key: NVP_RECENT_WAYPOINTS, callback})
recentWaypointsCallback ==
    /\ recentQueue # <<>>
    /\ recentWaypoints' = Head(recentQueue)
    /\ recentQueue' = Tail(recentQueue)
    /\ last' = Call("recentWaypointsCallback")
    /\ UNCHANGED <<store, recentStore, allTransactions, txQueue, inFlight, resolved,
                   contract, budget>>
    /\ UNCHANGED <<saveCalls, sidebarVars>>

\* a slip: a null transaction is stored in the mirror
IgnoresNotificationWithoutKey(key, transaction) == key = NoKey

\* the callback's early return: !key || !transaction
IgnoresNotification(key, transaction) == key = NoKey \/ transaction = NullTransaction

\* another part of the application removes a stored transaction; the
\* subscribers of its collection are notified of null
transactionRemoved(key) ==
    /\ CanCall
    /\ CanNotify(key)
    /\ store' = [store EXCEPT ![key] = EmptyTransaction]
    /\ txQueue' = Notified(key, NullTransaction)
    /\ Called([Call("transactionRemoved") EXCEPT !.key = key], contract)
    /\ UNCHANGED <<recentStore, allTransactions, recentWaypoints, recentQueue,
                   inFlight, resolved>>
    /\ UNCHANGED <<saveCalls, sidebarVars>>

\* Onyx.connect({key: COLLECTION.TRANSACTION, callback})
allTransactionsCallback ==
    /\ txQueue # <<>>
    /\ LET transaction == Head(txQueue).value
           key == Head(txQueue).key
           ignored == IgnoresNotification(key, transaction)
           \* CollectionUtils.extractCollectionItemID(key)
           transactionID == key[2]
       IN  /\ allTransactions' =
                 IF ignored THEN allTransactions
                 ELSE [id \in DOMAIN allTransactions \cup {transactionID} |->
                          IF id = transactionID THEN transaction ELSE allTransactions[id]]
           /\ last' = [Call("allTransactionsCallback") EXCEPT !.key = key,
                                                              !.transaction = transaction,
                                                              !.wrote = ~ignored]
    /\ txQueue' = Tail(txQueue)
    /\ UNCHANGED <<store, recentStore, recentWaypoints, recentQueue, inFlight, resolved,
                   contract, budget>>
    /\ UNCHANGED <<saveCalls, sidebarVars>>

----------------------------------------------------------------------------
(* SidebarLinksData: the memo that orders the report ids.  A list is an      *)
(* array object: ref tells one array from another of the same content.       *)

\* renders of SidebarLinksData in one behaviour
MaxRenders == 3

PRIORITY_MODE_DEFAULT == "default"
PRIORITY_MODE_GSD == "gsd"
PriorityModes == {PRIORITY_MODE_DEFAULT, PRIORITY_MODE_GSD}

\* an array of report ids
ReportIDs(ref, ids) == [isNull |-> FALSE, ref |-> ref, ids |-> ids]
\* useRef<string[] | null>(null)
NullReportIDs == [isNull |-> TRUE, ref |-> 0, ids |-> <<>>]
\* the [] of `reportIDsRef.current || []`
NoReportIDs == ReportIDs(0, <<>>)

\* the lists SidebarUtils.getOrderedReportIDs computes as the reports change
OrderedReportIDs == {<<>>, <<"r1">>, <<"r1", "r2">>, <<"r2", "r1">>}

\* fast-equals deepEqual of reportIDsRef.current and an array: by content
deepEqual(current, reportIDs) == ~current.isNull /\ current.ids = reportIDs.ids

\* usePrevious(priorityMode): the value of the render before, the value
\* itself in the first render
usePrevious(value) == IF renders = 0 THEN value ELSE priorityMode

\* a slip: being offline does not update the list
UpdatesReportIDsUnlessOffline(isLoading, current, isOffline, prevPriorityMode, mode) ==
    \/ ~isLoading
    \/ current.isNull
    \/ (~current.isNull /\ prevPriorityMode # mode)

\* the condition under which the memo updates reportIDsRef.current
UpdatesReportIDs(isLoading, current, isOffline, prevPriorityMode, mode) ==
    \/ ~isLoading
    \/ current.isNull
    \/ isOffline
    \/ (~current.isNull /\ prevPriorityMode # mode)

\* reportIDsRef.current after the memo has run
NewReportIDsRef(isLoading, current, isOffline, prevPriorityMode, mode, reportIDs) ==
    IF deepEqual(current, reportIDs) THEN current
    ELSE IF UpdatesReportIDs(isLoading, current, isOffline, prevPriorityMode, mode)
         THEN reportIDs
         ELSE current

\* the value the memo returns, given reportIDsRef.current after it has run
MemoReturns(current) == IF current.isNull THEN NoReportIDs ELSE current

\* a render of SidebarLinksData in which a dependency of the memo changed
SidebarLinksData(isLoadingApp, isOffline, mode, ids) ==
    LET prevPriorityMode == usePrevious(mode)
        isLoading == isLoadingApp
        reportIDs == ReportIDs(renders + 1, ids)
        current == NewReportIDsRef(isLoading, reportIDsRef, isOffline, prevPriorityMode,
                                   mode, reportIDs)
    IN  /\ renders < MaxRenders
        /\ reportIDsRef' = current
        /\ optionListItems' = MemoReturns(current)
        /\ priorityMode' = mode
        /\ renders' = renders + 1
        /\ last' = [op |-> "SidebarLinksData", reportIDs |-> reportIDs,
                    cached |-> reportIDsRef, isLoading |-> isLoading,
                    isOffline |-> isOffline, priorityMode |-> mode,
                    prevPriorityMode |-> prevPriorityMode]
        /\ UNCHANGED transactionVars

\* SidebarLinksData before its first render
NotRendered ==
    /\ reportIDsRef = NullReportIDs
    /\ optionListItems = NoReportIDs
    /\ priorityMode = PRIORITY_MODE_DEFAULT
    /\ renders = 0

----------------------------------------------------------------------------
(* Specifications *)

\* a transaction created by the application, not yet given waypoints
CreatedTransaction(transactionID) ==
    [EmptyTransaction EXCEPT !.transactionID = transactionID]

Init ==
    /\ store = [k \in Keys |-> CreatedTransaction(k[2])]
    /\ recentStore = <<>>
    /\ allTransactions = <<>>
    /\ recentWaypoints = <<>>
    /\ txQueue = <<>>
    /\ recentQueue = <<>>
    /\ inFlight = [k \in Keys |-> 0]
    /\ resolved = {}
    /\ contract = "new"
    /\ budget = MaxOps
    /\ last = Call("none")
    /\ saveCalls = <<>>
    /\ NotRendered

\* the operations, called with arguments of the given sets
Operations(indices, saved, updated) ==
    \/ \E id \in TxIDs : createInitialWaypoints(id)
    \/ \E id \in TxIDs : addStop(id)
    \/ \E id \in TxIDs, index \in indices, waypoint \in saved, isDraft \in BOOLEAN :
          saveWaypoint(id, index, waypoint, isDraft)
    \/ \E index \in indices, isDraft \in BOOLEAN :
          \E transaction \in Snapshots(isDraft) : removeWaypoint(transaction, index, isDraft)
    \/ \E id \in TxIDs : getRoute(id)
    \/ \E id \in TxIDs : getRouteForDraft(id)
    \/ \E id \in TxIDs, waypoints \in updated, isDraft \in BOOLEAN :
          updateWaypoints(id, waypoints, isDraft)

Environment ==
    \/ \E key \in Keys, succeeded \in BOOLEAN : requestResolves(key, succeeded)
    \/ \E key \in Keys, patch \in {RoutePushed, ErrorPushed} : backendPushes(key, patch)
    \/ recentWaypointsCallback
    \/ allTransactionsCallback

Next ==
    \/ Operations(0..MaxIndex, {GeocodedA}, {CollectionOf(<<UngeocodedB, GeocodedA, EmptyWaypoint>>)})
    \/ Environment

Spec == Init /\ [][Next]_vars

----------------------------------------------------------------------------
(* SpecOp: one operation called in a state drawn from the records the store  *)
(* can hold.                                                                 *)

RECURSIVE SeqsUpTo(_, _)
\* the sequences over values of length at most n
SeqsUpTo(values, n) ==
    IF n = 0 THEN {<<>>}
    ELSE LET shorter == SeqsUpTo(values, n - 1)
         IN  shorter \cup {Append(q, v) : q \in shorter, v \in values}

\* the waypoint values of a stored record
StoredWaypoints == {EmptyWaypoint, GeocodedA, UngeocodedB, NullWaypoint}

\* a transaction whose route the backend has computed, with an error pushed
Routed(transaction) ==
    [transaction EXCEPT !.amount = <<7>>, !.isLoading = "false", !.errorRoute = "error",
                        !.distance = "distance", !.coordinates = "coordinates"]

\* the records of the copy an operation is called on
StoredTransactions(transactionID) ==
    LET plain == {[CreatedTransaction(transactionID) EXCEPT !.waypoints = CollectionOf(q)] :
                    q \in SeqsUpTo(StoredWaypoints, MaxLen)}
    IN  plain \cup {Routed(t) : t \in plain}

\* the records of the other copy
OtherTransactions(transactionID) ==
    {CreatedTransaction(transactionID),
     Routed([CreatedTransaction(transactionID) EXCEPT
                !.waypoints = CollectionOf(<<GeocodedC, EmptyWaypoint, GeocodedA>>)])}

\* six geocoded waypoints of distinct addresses
Recent(n) == Waypoint(<<"A", "R1", "R2", "R3", "R4", "R5">>[n], TRUE)

\* the recent waypoints lists: most recent first, without a repeated address
RecentLists ==
    {[i \in 1..n |-> Recent(i + from)] : n \in 0..MaxRecentWaypoints, from \in 0..1}

InitOp ==
    /\ \E t \in TxIDs, rich \in Collections :
         \E transaction \in StoredTransactions(t), other \in OtherTransactions(t) :
            store = [k \in Keys |-> IF k[1] = rich THEN transaction ELSE other]
    /\ recentStore \in RecentLists
    /\ recentStore # <<>> => store[KeyOf(TRANSACTION, "t1")] = CreatedTransaction("t1")
    /\ recentStore # <<>> => store[KeyOf(TRANSACTION_DRAFT, "t1")] = CreatedTransaction("t1")
    /\ allTransactions \in
          {<<>>, [id \in TxIDs |-> store[KeyOf(TRANSACTION, id)]]}
    /\ recentWaypoints \in {<<>>, recentStore}
    /\ txQueue = <<>>
    /\ recentQueue = <<>>
    /\ inFlight = [k \in Keys |-> 0]
    /\ resolved = {}
    /\ contract = "kept"
    /\ budget = 1
    /\ last = Call("none")
    /\ saveCalls = <<>>
    /\ NotRendered

NextOp ==
    \/ Operations(0..MaxLen, SavedWaypoints, UpdatedCollections)
    \/ Environment

SpecOp == InitOp /\ [][NextOp]_vars

----------------------------------------------------------------------------
(* SpecRecent: calls of saveWaypoint interleaved with the notifications of   *)
(* their writes, from a recent waypoints list the mirror has caught up with. *)

\* calls of saveWaypoint in one behaviour of SpecRecent
MaxSaves == 3

\* the recent waypoints lists at the start: none, four and five addresses
InitialRecentLists == {[i \in 1..n |-> Recent(i + 1)] : n \in {0, 4, 5}}

\* the addresses the lists at the start hold
InitialAddresses == UNION {Addresses(recent) : recent \in InitialRecentLists}

\* the waypoints saved: two of new addresses, one of an address the lists at
\* the start hold, one without lat and lng, and the current location
RecentSaves == {GeocodedA, GeocodedC, Recent(2), UngeocodedB, CurrentLocation}

InitRecent ==
    /\ store = [k \in Keys |-> CreatedTransaction(k[2])]
    /\ recentStore \in InitialRecentLists
    /\ allTransactions = <<>>
    /\ recentWaypoints = recentStore
    /\ txQueue = <<>>
    /\ recentQueue = <<>>
    /\ inFlight = [k \in Keys |-> 0]
    /\ resolved = {}
    /\ contract = "new"
    /\ budget = MaxSaves
    /\ last = Call("none")
    /\ saveCalls = <<>>
    /\ NotRendered

NextRecent ==
    \/ \E id \in TxIDs, waypoint \in RecentSaves, isDraft \in BOOLEAN :
          saveWaypoint(id, 0, waypoint, isDraft)
    \/ recentWaypointsCallback
    \/ allTransactionsCallback

SpecRecent == InitRecent /\ [][NextRecent]_vars

----------------------------------------------------------------------------
(* SpecRoute: route requests of both copies, overlapping, their responses    *)
(* and the backend's pushes, on transactions with and without a route.       *)

\* the records of a copy a route is requested for
RouteTransactions(transactionID) ==
    {CreatedTransaction(transactionID),
     Routed([CreatedTransaction(transactionID) EXCEPT
                !.waypoints = CollectionOf(<<GeocodedA, EmptyWaypoint, UngeocodedB>>)])}

InitRoute ==
    /\ store \in [Keys -> UNION {RouteTransactions(id) : id \in TxIDs}]
    /\ \A k \in Keys : store[k] \in RouteTransactions(k[2])
    /\ recentStore = <<>>
    /\ allTransactions = <<>>
    /\ recentWaypoints = <<>>
    /\ txQueue = <<>>
    /\ recentQueue = <<>>
    /\ inFlight = [k \in Keys |-> 0]
    /\ resolved = {}
    /\ contract = "new"
    /\ budget = MaxOps
    /\ last = Call("none")
    /\ saveCalls = <<>>
    /\ NotRendered

NextRoute ==
    \/ \E id \in TxIDs : getRoute(id)
    \/ \E id \in TxIDs : getRouteForDraft(id)
    \/ \E key \in Keys, succeeded \in BOOLEAN : requestResolves(key, succeeded)
    \/ \E key \in Keys, patch \in {RoutePushed, ErrorPushed} : backendPushes(key, patch)
    \/ allTransactionsCallback

SpecRoute == InitRoute /\ [][NextRoute]_vars

----------------------------------------------------------------------------
(* SpecSnapshot: the waypoint operations on the committed copy, with         *)
(* removeWaypoint called on the stored copy or on the transaction as last    *)
(* notified, while later writes are not yet notified.                        *)

NextSnapshot ==
    \/ \E id \in TxIDs : createInitialWaypoints(id)
    \/ \E id \in TxIDs : addStop(id)
    \/ \E id \in TxIDs, index \in 0..MaxIndex : saveWaypoint(id, index, GeocodedA, TRUE)
    \/ \E index \in 0..MaxIndex :
          \E transaction \in Snapshots(FALSE) : removeWaypoint(transaction, index, FALSE)
    \/ allTransactionsCallback

SpecSnapshot == Init /\ [][NextSnapshot]_vars

----------------------------------------------------------------------------
(* SpecMirror: the transaction mirror from the subscription on: the first    *)
(* notification (of the stored transaction, or of null without a key when    *)
(* the collection is empty) is pending; transactions get waypoints and are   *)
(* removed.                                                                  *)

InitMirror ==
    /\ \E present \in BOOLEAN :
          /\ store = [k \in Keys |-> IF present THEN CreatedTransaction(k[2])
                                                ELSE EmptyTransaction]
          /\ txQueue = IF present
                       THEN <<Notification(KeyOf(TRANSACTION, "t1"), CreatedTransaction("t1"))>>
                       ELSE <<Notification(NoKey, NullTransaction)>>
    /\ recentStore = <<>>
    /\ allTransactions = <<>>
    /\ recentWaypoints = <<>>
    /\ recentQueue = <<>>
    /\ inFlight = [k \in Keys |-> 0]
    /\ resolved = {}
    /\ contract = "new"
    /\ budget = MaxOps
    /\ last = Call("none")
    /\ saveCalls = <<>>
    /\ NotRendered

NextMirror ==
    \/ \E id \in TxIDs : createInitialWaypoints(id)
    \/ \E id \in TxIDs : addStop(id)
    \/ \E id \in TxIDs : transactionRemoved(KeyOf(TRANSACTION, id))
    \/ allTransactionsCallback

SpecMirror == InitMirror /\ [][NextMirror]_vars

----------------------------------------------------------------------------
(* SpecSidebar: the renders of SidebarLinksData, with any props and any      *)
(* list computed from the reports.                                           *)

NextSidebar ==
    \E isLoadingApp \in BOOLEAN, isOffline \in BOOLEAN, mode \in PriorityModes,
       ids \in OrderedReportIDs :
        SidebarLinksData(isLoadingApp, isOffline, mode, ids)

SpecSidebar == Init /\ [][NextSidebar]_vars

----------------------------------------------------------------------------
(* Claims *)

\* the keys are waypoint0..waypoint(k-1) for some k
Contiguous(waypoints) == WaypointKeys(waypoints) = 0..(Len(waypoints) - 1)

\* C1: from createInitialWaypoints on, as long as saveWaypoint and
\* removeWaypoint are called at the index of an existing waypoint and
\* updateWaypoints with a contiguous mapping, the waypoint keys of every stored
\* copy are contiguous from waypoint0, whatever the delay of the notifications
\* to the mirror.
C1_WaypointKeysContiguous ==
    contract = "kept" => \A k \in Keys : Contiguous(store[k].waypoints)

\* C8: once a route request of a copy has resolved and none is in flight,
\* the copy's comment.isLoading is false.
C8_NeverStuckLoading ==
    \A k \in Keys : (k \in resolved /\ inFlight[k] = 0) => store[k].isLoading = "false"

\* the copy the last call was made on, before and after it
Before == last.before[last.key]
After == store[last.key]

\* removeWaypoint was called on a snapshot that has a waypoint at the index
Removed == last.op = "removeWaypoint" /\ last.index < Len(last.transaction.waypoints)

\* C2: removeWaypoint at an index of a snapshot of N >= 3 contiguous waypoints
\* writes exactly the keys waypoint0..waypoint(N-2), holding the other N-1
\* waypoints in their order; no empty waypoint is put back.
C2_RemoveReindexes ==
    (Removed /\ Contiguous(last.transaction.waypoints) /\ Len(last.transaction.waypoints) >= 3) =>
        LET values == WaypointValues(last.transaction.waypoints)
            N == Len(values)
        IN  /\ Len(After.waypoints) = N - 1
            /\ \A j \in 1..(N - 1) :
                  /\ After.waypoints[j].key = j - 1
                  /\ After.waypoints[j].value = IF j <= last.index THEN values[j] ELSE values[j + 1]

\* {A, (empty), B} with index 1 removed is {waypoint0: A, waypoint1: B}
C2_Witness ==
    /\ Removed
    /\ last.index = 1
    /\ last.transaction.waypoints = CollectionOf(<<GeocodedA, EmptyWaypoint, UngeocodedB>>)
    /\ After.waypoints = CollectionOf(<<GeocodedA, UngeocodedB>>)

\* C3: removeWaypoint at index 0 or 1 of a snapshot of exactly two waypoints
\* writes exactly waypoint0 and waypoint1: an empty waypoint at the removed
\* index and the other waypoint of the snapshot at the other index.
C3_RemoveOfTwoKeepsTwo ==
    (Removed /\ Len(last.transaction.waypoints) = 2) =>
        LET values == WaypointValues(last.transaction.waypoints)
            kept == 2 - last.index
        IN  /\ Len(After.waypoints) = 2
            /\ After.waypoints[1].key = 0
            /\ After.waypoints[2].key = 1
            /\ After.waypoints[last.index + 1].value = EmptyWaypoint
            /\ After.waypoints[kept].value = values[kept]

\* {A, B} with index 0 removed is {waypoint0: (empty), waypoint1: B}
C3_Witness ==
    /\ Removed
    /\ last.index = 0
    /\ last.transaction.waypoints = CollectionOf(<<GeocodedA, UngeocodedB>>)
    /\ After.waypoints = CollectionOf(<<EmptyWaypoint, UngeocodedB>>)

\* C4: addStop on a transaction whose stored copy holds
\* waypoint0..waypoint(N-1), N >= 0, leaves waypoint0..waypointN in the store:
\* the entries it had, unchanged, followed by an empty waypointN.
C4_AddStopAppends ==
    (last.op = "addStop" /\ Contiguous(Before.waypoints)) =>
        LET N == Len(Before.waypoints)
        IN  /\ WaypointKeys(After.waypoints) = 0..N
            /\ WaypointAt(After.waypoints, N) = EmptyWaypoint
            /\ \A k \in 0..(N - 1) : WaypointAt(After.waypoints, k) = WaypointAt(Before.waypoints, k)

\* C5: saveWaypoint of a waypoint with lat and lng, whose address is not the
\* current-location text and is not in the recent waypoints list (as the
\* module mirrors it), stores that waypoint followed by the list's entries,
\* cut to 5; with an address the list has, the stored list stays as it was.
C5_RecentWaypointsPrepended ==
    (last.op = "saveWaypoint" /\ ~last.waypoint.isNull) =>
        /\ last.waypoint.address \in Addresses(recentWaypoints) =>
              recentStore = last.recentBefore
        /\ (/\ last.waypoint.geo
            /\ last.waypoint.address # YOUR_LOCATION_TEXT
            /\ last.waypoint.address \notin Addresses(recentWaypoints)) =>
              /\ Len(recentStore) = (IF Len(recentWaypoints) >= 5 THEN 5 ELSE Len(recentWaypoints) + 1)
              /\ recentStore[1] = last.waypoint
              /\ \A i \in 2..Len(recentStore) : recentStore[i] = recentWaypoints[i - 1]

\* a sixth address pushes the oldest of five out
C5_Witness ==
    /\ last.op = "saveWaypoint"
    /\ last.waypoint = GeocodedA
    /\ last.recentBefore = <<Recent(2), Recent(3), Recent(4), Recent(5), Recent(6)>>
    /\ recentWaypoints = last.recentBefore
    /\ recentStore = <<GeocodedA, Recent(2), Recent(3), Recent(4), Recent(5)>>

\* C6: after updateWaypoints the copy's waypoints are exactly the mapping
\* passed.
C6_UpdateReplaces ==
    last.op = "updateWaypoints" => After.waypoints = last.waypoints

\* C7 as claimed: after createInitialWaypoints the copy has exactly waypoint0
\* and waypoint1, both empty, whatever it held before.
C7_AlwaysTwoEmpty ==
    last.op = "createInitialWaypoints" =>
        After.waypoints = CollectionOf(<<EmptyWaypoint, EmptyWaypoint>>)

\* C7, amended: createInitialWaypoints merges: a transaction that held no
\* waypoints has exactly waypoint0 and waypoint1, both empty; one that held
\* waypoints keeps every key and every non-null waypoint it had, a null
\* waypoint0 or waypoint1 becomes empty, and waypoint0 and waypoint1 are added
\* empty where missing.
C7_InitialWaypointsMerged ==
    last.op = "createInitialWaypoints" =>
        /\ Before.waypoints = EmptyCollection =>
              After.waypoints = CollectionOf(<<EmptyWaypoint, EmptyWaypoint>>)
        /\ WaypointKeys(After.waypoints) = WaypointKeys(Before.waypoints) \cup {0, 1}
        /\ \A k \in WaypointKeys(After.waypoints) :
              WaypointAt(After.waypoints, k) =
                 IF k \in WaypointKeys(Before.waypoints)
                    /\ ~(k \in {0, 1} /\ WaypointAt(Before.waypoints, k).isNull)
                 THEN WaypointAt(Before.waypoints, k)
                 ELSE EmptyWaypoint

\* a transaction without waypoints gets the two empty ones
C7_Witness ==
    /\ last.op = "createInitialWaypoints"
    /\ Before.waypoints = EmptyCollection
    /\ After.waypoints = CollectionOf(<<EmptyWaypoint, EmptyWaypoint>>)

\* C9: saveWaypoint merges the waypoint and clears errorFields.route and the
\* route geometry in the committed copy when isDraft is true and in the draft
\* copy when isDraft is false, and leaves the other copy as it was.
C9_SaveWaypointTarget ==
    last.op = "saveWaypoint" =>
        \A id \in TxIDs :
            LET committed == KeyOf(TRANSACTION, id)
                draft == KeyOf(TRANSACTION_DRAFT, id)
                target == IF last.isDraft THEN committed ELSE draft
                other == IF last.isDraft THEN draft ELSE committed
            IN  /\ store[other] = last.before[other]
                /\ store[target].errorRoute = NullValue
                /\ store[target].coordinates = NullValue
                /\ last.index \in WaypointKeys(store[target].waypoints)
                /\ LET saved == WaypointAt(store[target].waypoints, last.index)
                   IN  /\ saved.isNull = last.waypoint.isNull
                       /\ last.waypoint.address # Absent => saved.address = last.waypoint.address
                       /\ last.waypoint.geo => saved.geo

\* with isDraft the committed copy gets the waypoint and loses its route and
\* error, and the draft copy is untouched
C9_Witness ==
    /\ last.op = "saveWaypoint"
    /\ last.isDraft
    /\ last.waypoint = GeocodedA
    /\ last.index = 1
    /\ last.before[KeyOf(TRANSACTION, "t1")].errorRoute = "error"
    /\ last.before[KeyOf(TRANSACTION, "t1")].waypoints = CollectionOf(<<UngeocodedB, EmptyWaypoint>>)
    /\ store[KeyOf(TRANSACTION, "t1")].waypoints = CollectionOf(<<UngeocodedB, GeocodedA>>)
    /\ store[KeyOf(TRANSACTION, "t1")].errorRoute = NullValue
    /\ store[KeyOf(TRANSACTION_DRAFT, "t1")] = last.before[KeyOf(TRANSACTION_DRAFT, "t1")]
    /\ store[KeyOf(TRANSACTION_DRAFT, "t1")].waypoints # EmptyCollection

\* C10: the record removeWaypoint writes has errorFields.route and the route0
\* geometry (and distance) cleared when the removed waypoint had an address;
\* when it had none, its routes and errorFields are the snapshot's.
C10_RemoveClearsRoute ==
    Removed =>
        LET removed == WaypointValues(last.transaction.waypoints)[last.index + 1]
        IN  IF ~removed.isNull /\ removed.address # Absent
            THEN /\ After.errorRoute = NullValue
                 /\ After.coordinates = NullValue
                 /\ After.distance = NullValue
            ELSE /\ After.errorRoute = last.transaction.errorRoute
                 /\ After.coordinates = last.transaction.coordinates
                 /\ After.distance = last.transaction.distance

\* both cases on a snapshot with a route and an error: an empty waypoint
\* removed keeps them, ...
C10_WitnessKept ==
    /\ Removed
    /\ last.transaction.waypoints = CollectionOf(<<GeocodedA, EmptyWaypoint, UngeocodedB>>)
    /\ last.index = 1
    /\ last.transaction.errorRoute = "error"
    /\ After.errorRoute = "error"
    /\ After.coordinates = "coordinates"

\* ... a waypoint with an address removed clears them
C10_Witness ==
    /\ Removed
    /\ last.transaction.waypoints = CollectionOf(<<GeocodedA, EmptyWaypoint, UngeocodedB>>)
    /\ last.index = 2
    /\ last.transaction.errorRoute = "error"
    /\ last.transaction.coordinates = "coordinates"
    /\ After.errorRoute = NullValue
    /\ After.coordinates = NullValue

\* C12: removeWaypoint with an index at which the snapshot has no waypoint
\* (index >= the number of its waypoints, a snapshot without waypoints
\* included) writes nothing: the draft and committed copies and the recent
\* waypoints list are as before the call.
C12_RemoveNothingWritesNothing ==
    (last.op = "removeWaypoint" /\ last.index >= Len(last.transaction.waypoints)) =>
        /\ store = last.before
        /\ recentStore = last.recentBefore

\* index 2 of a snapshot of two waypoints, the stored copy itself
C12_Witness ==
    /\ last.op = "removeWaypoint"
    /\ last.index = 2
    /\ last.transaction.waypoints = CollectionOf(<<GeocodedA, UngeocodedB>>)
    /\ last.transaction = last.before[KeyOf(TRANSACTION, "t1")]
    /\ last.transaction.coordinates = "coordinates"
    /\ store = last.before

\* index 0 of a snapshot without waypoints
C12_WitnessNoWaypoints ==
    /\ last.op = "removeWaypoint"
    /\ last.index = 0
    /\ last.transaction.waypoints = EmptyCollection
    /\ store = last.before

\* C13: after updateWaypoints, whatever the copy held, its route0 geometry
\* coordinates and its errorFields.route are cleared (null or absent).
C13_UpdateClearsRoute ==
    last.op = "updateWaypoints" =>
        /\ After.coordinates \in {NullValue, Absent}
        /\ After.errorRoute \in {NullValue, Absent}

\* a copy with a route and a route error loses both
C13_Witness ==
    /\ last.op = "updateWaypoints"
    /\ Before.coordinates = "coordinates"
    /\ Before.errorRoute = "error"
    /\ After.coordinates = NullValue
    /\ After.errorRoute = NullValue

\* the last render computed a list whose content is not the cached one's
FreshDiffers == last.cached.isNull \/ last.cached.ids # last.reportIDs.ids

\* C18: a render of SidebarLinksData that computes a list different from the
\* cached one replaces the cached list by it if and only if the app is not
\* loading, or no list is cached, or the network is offline, or the priority
\* mode differs from the previous render's; the cached list changes in no
\* other way; while loading, online, with the priority mode unchanged and a
\* list cached, the list returned is the cached one whatever was computed;
\* and when the list computed equals the cached one by content, the cached
\* array is returned.
C18_CachedReportIDs ==
    last.op = "SidebarLinksData" =>
        LET updates == \/ ~last.isLoading
                       \/ last.cached.isNull
                       \/ last.isOffline
                       \/ last.prevPriorityMode # last.priorityMode
        IN  /\ FreshDiffers => ((reportIDsRef = last.reportIDs) <=> updates)
            /\ reportIDsRef # last.cached => (reportIDsRef = last.reportIDs /\ FreshDiffers)
            /\ (last.isLoading /\ ~last.isOffline /\ ~last.cached.isNull
                    /\ last.prevPriorityMode = last.priorityMode) =>
                  (optionListItems = last.cached /\ reportIDsRef = last.cached)
            /\ ~FreshDiffers => (optionListItems = last.cached /\ reportIDsRef = last.cached)
            /\ optionListItems = reportIDsRef

\* while loading and offline, with the priority mode unchanged, a cached list
\* is replaced by a different one
C18_Witness ==
    /\ last.op = "SidebarLinksData"
    /\ last.isLoading /\ last.isOffline
    /\ last.prevPriorityMode = last.priorityMode
    /\ last.cached.ids = <<"r1", "r2">>
    /\ reportIDsRef = last.reportIDs
    /\ reportIDsRef.ids = <<"r2", "r1">>

\* while loading and online, with the priority mode unchanged, the cached
\* list stays though the reports give another order
C18_WitnessKept ==
    /\ last.op = "SidebarLinksData"
    /\ last.isLoading /\ ~last.isOffline
    /\ last.prevPriorityMode = last.priorityMode
    /\ last.cached.ids = <<"r1", "r2">>
    /\ last.reportIDs.ids = <<"r2", "r1">>
    /\ optionListItems = last.cached

\* a list of the same content is computed: the cached array is returned
C18_WitnessEqual ==
    /\ last.op = "SidebarLinksData"
    /\ ~last.isLoading
    /\ last.cached.ids = <<"r1", "r2">>
    /\ last.reportIDs.ids = <<"r1", "r2">>
    /\ last.reportIDs.ref # last.cached.ref
    /\ optionListItems = last.cached

\* C11: whatever the interleaving of saveWaypoint calls and of the
\* notifications to the recent waypoints mirror, the stored recent waypoints
\* list has at most 5 entries, no two of them of the same address, and none
\* without lat and lng or with the current-location text as its address.
C11_RecentWaypointsWellFormed ==
    /\ Len(recentStore) <= 5
    /\ \A i, j \in 1..Len(recentStore) :
          recentStore[i].address = recentStore[j].address => i = j
    /\ \A i \in 1..Len(recentStore) :
          /\ ~recentStore[i].isNull
          /\ recentStore[i].geo
          /\ recentStore[i].address # YOUR_LOCATION_TEXT

\* a second new address is saved onto a full list before the mirror has seen
\* the first: five entries are stored
C11_Witness ==
    /\ last.op = "saveWaypoint"
    /\ last.wrote
    /\ Len(saveCalls) >= 2
    /\ recentQueue # <<>>
    /\ recentWaypoints # last.recentBefore
    /\ Len(last.recentBefore) = 5
    /\ Len(recentStore) = 5
    /\ recentStore[1] = last.waypoint

\* the waypoints of saveCalls are eligible for the recent waypoints list and
\* of new, pairwise distinct addresses
EligibleNewSaves ==
    /\ \A i \in 1..Len(saveCalls) :
          /\ HasLatLng(saveCalls[i])
          /\ saveCalls[i].address # YOUR_LOCATION_TEXT
          /\ saveCalls[i].address \notin InitialAddresses
    /\ \A i, j \in 1..Len(saveCalls) :
          saveCalls[i].address = saveCalls[j].address => i = j

\* C16: after saveWaypoint calls with eligible waypoints of new, pairwise
\* distinct addresses, however the notifications to the mirror interleave,
\* the stored recent list starts with the (up to 5) most recently saved of
\* them, most recent first.
C16_RecentSavesKept ==
    EligibleNewSaves =>
        LET n == Len(saveCalls)
            k == IF n < 5 THEN n ELSE 5
        IN  /\ Len(recentStore) >= k
            /\ \A j \in 1..k : recentStore[j] = saveCalls[n - j + 1]

\* C15 as claimed: comment.isLoading of a copy is true in every state in
\* which a route request of that copy is in flight.
C15_LoadingWhileInFlight ==
    \A k \in Keys : inFlight[k] > 0 => store[k].isLoading = "true"

\* C15, amended: the last write wins: comment.isLoading of a copy is true
\* once a route request of it is issued and false once any response of a
\* request of it has arrived, be other requests of that copy in flight or not.
C15_LastWriteWins ==
    /\ last.op \in {"getRoute", "getRouteForDraft"} => After.isLoading = "true"
    /\ last.op \in {"requestSucceeds", "requestFails"} => After.isLoading = "false"

\* the first of two overlapping requests resolves: not loading, one in flight
C15_Witness ==
    /\ last.op = "requestSucceeds"
    /\ inFlight[last.key] = 1
    /\ Before.isLoading = "true"
    /\ After.isLoading = "false"

\* the copy a route request is for, by the operation that issued it
RequestedCopy ==
    KeyOf(IF last.op = "getRouteForDraft" \/ (last.op # "getRoute" /\ last.isDraft)
          THEN TRANSACTION_DRAFT ELSE TRANSACTION,
          last.key[2])

\* C19: the optimistic patch of a route request changes only comment.isLoading
\* (true) and errorFields.route (null) of the copy requested, the committed
\* one for getRoute and the draft one for getRouteForDraft; the success and
\* failure patches change only comment.isLoading (false) of that copy:
\* waypoints, routes and the other copy stay, and after a failure
\* errorFields.route is what it was before it.
C19_RoutePatchesFrame ==
    /\ last.op \in {"getRoute", "getRouteForDraft"} =>
          /\ \A k \in Keys \ {RequestedCopy} : store[k] = last.before[k]
          /\ store[RequestedCopy] =
                [last.before[RequestedCopy] EXCEPT !.isLoading = "true",
                                                   !.errorRoute = NullValue]
          /\ recentStore = last.recentBefore
    /\ last.op \in {"requestSucceeds", "requestFails"} =>
          /\ \A k \in Keys \ {RequestedCopy} : store[k] = last.before[k]
          /\ store[RequestedCopy] =
                [last.before[RequestedCopy] EXCEPT !.isLoading = "false"]
          /\ recentStore = last.recentBefore

\* a request of the draft copy fails after the backend has pushed an error:
\* the error, the waypoints and the route stay
C19_Witness ==
    /\ last.op = "requestFails"
    /\ last.key = KeyOf(TRANSACTION_DRAFT, "t1")
    /\ Before.isLoading = "true"
    /\ Before.errorRoute = "error"
    /\ After.errorRoute = "error"
    /\ After.isLoading = "false"
    /\ After.coordinates = "coordinates"
    /\ After.waypoints = CollectionOf(<<GeocodedA, EmptyWaypoint, UngeocodedB>>)

\* getRoute on a committed copy with an error: loading, the error cleared,
\* the waypoints, the route and the draft copy as before
C19_WitnessOptimistic ==
    /\ last.op = "getRoute"
    /\ Before.errorRoute = "error"
    /\ After.errorRoute = NullValue
    /\ After.isLoading = "true"
    /\ After.coordinates = "coordinates"
    /\ After.waypoints = CollectionOf(<<GeocodedA, EmptyWaypoint, UngeocodedB>>)
    /\ store[KeyOf(TRANSACTION_DRAFT, "t1")] = last.before[KeyOf(TRANSACTION_DRAFT, "t1")]
    /\ store[KeyOf(TRANSACTION_DRAFT, "t1")].errorRoute = "error"

\* the waypoints removeWaypoint leaves of the snapshot it was called with
LeftOfSnapshot ==
    LET values == WaypointValues(last.transaction.waypoints)
        N == Len(values)
    IN  IF N = 2
        THEN [j \in 1..2 |-> IF j = last.index + 1 THEN EmptyWaypoint ELSE values[j]]
        ELSE [j \in 1..(N - 1) |-> IF j <= last.index THEN values[j] ELSE values[j + 1]]

\* C14: the record removeWaypoint writes comes from the snapshot it was
\* called with alone and replaces the stored copy: the copy then holds the
\* snapshot's waypoints but the removed one, re-keyed, and the snapshot's
\* other fields (defaults where absent, route and error cleared or the
\* snapshot's), whatever the copy held at the write; no error is set.
C14_RemoveWritesSnapshot ==
    Removed =>
        /\ Contiguous(After.waypoints)
        /\ WaypointValues(After.waypoints) = LeftOfSnapshot
        /\ After.isLoading = last.transaction.isLoading
        /\ After.amount = IF last.transaction.amount = <<>> THEN <<0>>
                                                           ELSE last.transaction.amount
        /\ After.transactionID = last.transaction.transactionID
        /\ After.errorRoute \in {last.transaction.errorRoute, NullValue}
        /\ After.distance \in {last.transaction.distance, NullValue}
        /\ After.coordinates \in {last.transaction.coordinates, NullValue}

\* a waypoint added by addStop after the snapshot was taken is gone
C14_Witness ==
    /\ Removed
    /\ Len(last.transaction.waypoints) = 2
    /\ Len(Before.waypoints) = 3
    /\ Len(After.waypoints) = 2

\* a waypoint saved after the snapshot was taken is gone
C14_WitnessSaved ==
    /\ Removed
    /\ last.index = 0
    /\ last.transaction.waypoints = CollectionOf(<<EmptyWaypoint, EmptyWaypoint>>)
    /\ Before.waypoints = CollectionOf(<<EmptyWaypoint, GeocodedA>>)
    /\ After.waypoints = CollectionOf(<<EmptyWaypoint, EmptyWaypoint>>)

\* the entry of the mirror the last call found for the transaction it names
RetainedEntry ==
    IF last.key[2] \in DOMAIN last.mirror THEN last.mirror[last.key[2]] ELSE EmptyTransaction

\* C17: a notification with a key and a transaction puts that transaction in
\* the mirror under its id and leaves the other entries; a notification of
\* null, or without a key, leaves the whole mirror as it was; nothing else
\* changes the mirror, so an entry is never removed; and addStop takes its
\* key from the count of waypoints of the entry the mirror retains, also
\* after a notification of null.
C17_MirrorKeepsLastValue ==
    /\ last.op = "allTransactionsCallback" =>
          IF last.key = NoKey \/ last.transaction = NullTransaction
          THEN allTransactions = last.mirror
          ELSE /\ DOMAIN allTransactions = DOMAIN last.mirror \cup {last.key[2]}
               /\ allTransactions[last.key[2]] = last.transaction
               /\ \A id \in DOMAIN last.mirror \ {last.key[2]} :
                     allTransactions[id] = last.mirror[id]
    /\ last.op \in {"createInitialWaypoints", "addStop", "transactionRemoved"} =>
          allTransactions = last.mirror
    /\ last.op = "addStop" =>
          /\ last.index = Len(RetainedEntry.waypoints)
          /\ last.index \in WaypointKeys(After.waypoints)

\* the notification of a removed transaction leaves its entry in the mirror
C17_WitnessNull ==
    /\ last.op = "allTransactionsCallback"
    /\ last.transaction = NullTransaction
    /\ last.key = KeyOf(TRANSACTION, "t1")
    /\ "t1" \in DOMAIN allTransactions
    /\ allTransactions["t1"].waypoints = CollectionOf(<<EmptyWaypoint, EmptyWaypoint>>)
    /\ store[last.key] = EmptyTransaction

\* the notification without a key of an empty collection leaves the mirror
\* empty
C17_WitnessNoKey ==
    /\ last.op = "allTransactionsCallback"
    /\ last.key = NoKey
    /\ allTransactions = <<>>

\* addStop after the notification of the removal: waypoint2 by the retained
\* entry of two waypoints, in a copy that holds nothing else
C17_Witness ==
    /\ last.op = "addStop"
    /\ txQueue = <<Notification(last.key, After)>>
    /\ Before = EmptyTransaction
    /\ RetainedEntry.waypoints = CollectionOf(<<EmptyWaypoint, EmptyWaypoint>>)
    /\ last.index = 2
    /\ After.waypoints = <<Entry(2, EmptyWaypoint)>>

====
